---------------------------- MODULE Spec2Model ----------------------------
(***************************************************************************)
(* Fuel route planner: routeapi/utils.py (haversine_m, meters_to_miles,    *)
(* find_station_for_point, cumulative_distances, compute_stops) and        *)
(* routeapi/views.py (route_plan with its module-level stations_cache).    *)
(*                                                                         *)
(* Numbers.  Python floats are modelled by exact integers in fixed units:  *)
(*   - coordinates: a latitude is counted in arcs of one millimetre on the *)
(*     sphere of radius R = 6371000 m, and all points lie on one meridian, *)
(*     where the haversine formula reduces to R * |dphi|;                  *)
(*   - unrounded distances (cum, total_distance_m, target_m, max_range_m,  *)
(*     radius_m, ...) are in millimetres;                                  *)
(*   - prices are in cents per gallon;                                     *)
(*   - the rounded output fields are in their last kept decimal:           *)
(*       round(x, 2) of metres  -> centimetres                             *)
(*       round(x, 3) of miles   -> thousandths of a mile                   *)
(*       round(x, 3) of gallons -> thousandths of a gallon                 *)
(*       round(x, 2) of dollars -> cents                                   *)
(*     with Python's round-half-to-even.                                   *)
(***************************************************************************)
EXTENDS Integers, Sequences, FiniteSets, TLC

(***************************************************************************)
(* Bounds of the model.                                                    *)
(***************************************************************************)
MaxPts == 3
MaxStations == 2
MaxLocStations == 3
NumRequests == 2

(***************************************************************************)
(* Program constants.                                                      *)
(***************************************************************************)
\* utils.py:17 and 184/202/214: 1609.344 m per mile, here in millimetres
MmPerMile == 1609344
\* utils.py:194: the loop's safe_counter cap
SafeCounterCap == 50

(***************************************************************************)
(* Input domains.                                                          *)
(***************************************************************************)
\* the single meridian of the model
LonSet == {0}
\* latitudes of polyline vertices, as millimetres of arc from the equator
LatSet == {0, 1000005, 2000011}
\* latitudes and prices (cents per gallon) of stations
StationLatSet == {1000005, 2600000}
PriceSet == {289, 315}
NameSet == {"station"}
\* max_range_m in millimetres: negative, zero, an exact route length, and one
\* that falls between vertices
RangeSet == {-1000005, 0, 1000005, 1500000}
\* radius_m in millimetres
RadiusSet == {400000, 700000}
MpgSet == {10}
\* the standalone calls of find_station_for_point: station latitudes and radii
\* (0, and two radii that equal a point-to-station distance exactly)
LocStationLatSet == {400000, 1000005, 2600000}
LocRadiusSet == {0, 599989, 1599995}

Points == {<<lon, lat>> : lon \in LonSet, lat \in LatSet}
StationRecords ==
  [name : NameSet, lat : StationLatSet, lon : LonSet, price : PriceSet]
LocStationRecords ==
  [name : NameSet, lat : LocStationLatSet, lon : LonSet, price : PriceSet]

SeqsUpTo(S, n) == UNION {[1..k -> S] : k \in 0..n}

\* load_stations sorts the catalog by price before returning it
SortedByPrice(sts) ==
  \A i \in 1..(Len(sts) - 1) : sts[i].price <= sts[i + 1].price

(***************************************************************************)
(* Arithmetic helpers.                                                     *)
(***************************************************************************)
Abs(x) == IF x < 0 THEN -x ELSE x
Min(a, b) == IF a <= b THEN a ELSE b

\* Python round(): n / d (d > 0) rounded to the nearest integer, ties to even
RoundHalfEven(n, d) ==
  LET q == IF n >= 0 THEN n \div d ELSE -(((-n) + d - 1) \div d)
      r == n - q * d
  IN  IF 2 * r < d THEN q
      ELSE IF 2 * r > d THEN q + 1
      ELSE IF q % 2 = 0 THEN q ELSE q + 1

\* round(x_m, 2): millimetres -> centimetres
RoundMeters2(mm) == RoundHalfEven(mm, 10)

\* meters_to_miles followed by round(., 3): millimetres -> thousandths of a mile
\*   mm / 1000 / 1609.344 * 1000 = mm * 1000 / 1609344
meters_to_miles(mm) == RoundHalfEven(mm * 125, MmPerMile \div 8)

\* mutant: the division by mpg left out
GallonsRoundedWithoutMpg(mm, g) == RoundHalfEven(mm * 125, MmPerMile \div 8)

\* (m / 1609.344) / mpg followed by round(., 3): thousandths of a gallon
GallonsRounded(mm, g) == RoundHalfEven(mm * 125, (MmPerMile \div 8) * g)

\* gallons * station["price"] followed by round(., 2): cents.  The product uses
\* the unrounded gallons.
CostRounded(mm, g, price) == RoundHalfEven(mm * price, MmPerMile * g)

(***************************************************************************)
(* utils.py: haversine_m, on one meridian (dlambda = 0): a = sin^2(dphi/2), *)
(* c = |dphi|, result R * |dphi|, i.e. the arc between the two latitudes.  *)
(***************************************************************************)
haversine_m(lat1, lon1, lat2, lon2) == Abs(lat2 - lat1)

(***************************************************************************)
(* utils.py: find_station_for_point.  The result is [raised, station]:     *)
(* raised is TRUE for the IndexError of stations_sorted[0] on an empty     *)
(* list.  list.sort and sorted are stable: among equal keys the element    *)
(* that comes first in the list stays first.                               *)
(***************************************************************************)
NoStation == [name |-> "none", lat |-> 0, lon |-> 0, price |-> 0]

StationDist(lat, lon, s) == haversine_m(lat, lon, s.lat, s.lon)

\* candidates: the indices of the stations with d <= radius_m
Candidates(lat, lon, sts, radius) ==
  {i \in 1..Len(sts) : StationDist(lat, lon, sts[i]) <= radius}

\* mutant: the sort key taken as (d, price)
KeyLessDistanceFirst(lat, lon, a, b) ==
  \/ StationDist(lat, lon, a) < StationDist(lat, lon, b)
  \/ StationDist(lat, lon, a) = StationDist(lat, lon, b) /\ a.price < b.price

\* key (price, d) of candidates.sort
KeyLess(lat, lon, a, b) ==
  \/ a.price < b.price
  \/ a.price = b.price /\ StationDist(lat, lon, a) < StationDist(lat, lon, b)

\* candidates[0] after the stable sort by (price, d)
CheapestCandidate(lat, lon, sts, radius) ==
  LET cs == Candidates(lat, lon, sts, radius)
  IN  CHOOSE i \in cs :
        \A j \in cs : /\ ~KeyLess(lat, lon, sts[j], sts[i])
                      /\ (j < i => KeyLess(lat, lon, sts[i], sts[j]))

\* stations_sorted[0] after the stable sorted(..., key = distance)
NearestStation(lat, lon, sts) ==
  CHOOSE i \in 1..Len(sts) :
    \A j \in 1..Len(sts) :
      /\ StationDist(lat, lon, sts[i]) <= StationDist(lat, lon, sts[j])
      /\ (j < i => StationDist(lat, lon, sts[j]) > StationDist(lat, lon, sts[i]))

\* mutant: an empty list answered with a placeholder instead of the IndexError
find_station_or_placeholder(lat, lon, sts, radius) ==
  IF Candidates(lat, lon, sts, radius) # {}
    THEN [raised |-> FALSE,
          station |-> sts[CheapestCandidate(lat, lon, sts, radius)]]
  ELSE IF Len(sts) = 0
    THEN [raised |-> FALSE, station |-> NoStation]
  ELSE [raised |-> FALSE, station |-> sts[NearestStation(lat, lon, sts)]]

find_station_for_point(lat, lon, sts, radius) ==
  IF Candidates(lat, lon, sts, radius) # {}
    THEN [raised |-> FALSE,
          station |-> sts[CheapestCandidate(lat, lon, sts, radius)]]
  ELSE IF Len(sts) = 0
    THEN [raised |-> TRUE, station |-> NoStation]
  ELSE [raised |-> FALSE, station |-> sts[NearestStation(lat, lon, sts)]]

(***************************************************************************)
(* utils.py: cumulative_distances.  coords[i] is [lon, lat].               *)
(***************************************************************************)
RECURSIVE CumUpTo(_, _)
CumUpTo(coords, n) ==
  IF n = 1 THEN <<0>>
  ELSE LET prev == CumUpTo(coords, n - 1)
           d == haversine_m(coords[n - 1][2], coords[n - 1][1],
                            coords[n][2], coords[n][1])
       IN  Append(prev, prev[n - 1] + d)

cumulative_distances(coords) ==
  IF Len(coords) = 0 THEN <<0>> ELSE CumUpTo(coords, Len(coords))

\* next((i for i, v in enumerate(cum) if v >= target_m), len(cum) - 1),
\* a 0-based index: cum[i] of the source is c[i + 1] here
FirstIndexAtOrAfter(c, target) ==
  IF \E i \in 1..Len(c) : c[i] >= target
    THEN (CHOOSE i \in 1..Len(c) :
            /\ c[i] >= target
            /\ \A j \in 1..(i - 1) : c[j] < target) - 1
    ELSE Len(c) - 1

(***************************************************************************)
(* State.                                                                  *)
(*   compute_stops: its arguments, its locals and what it returns.         *)
(*   pc: "call" before the call, "loop" at the while test, "done" after    *)
(*   the return or the exception.                                          *)
(***************************************************************************)
VARIABLES
  coords_geojson, stations, max_range_m, mpg, radius_m,
  pc, cum, total_distance_m, stops, last_stop_dist_m, remaining_range,
  safe_counter, target_m, idx, outcome, result, locator_calls,
  \* one standalone call of find_station_for_point: arguments and result
  loc_lat, loc_lon, loc_stations, loc_radius_m, loc_pc, loc_found,
  \* views.py: the module global stations_cache (0 is None, n > 0 the list
  \* object returned by the n-th successful load_stations), and per request
  \* its content, its position in route_plan, its response status, the
  \* catalog compute_stops was given, and what it did on the way
  stations_cache, cache_writes, request, rpc, status, planned_with,
  loaded, external_calls

planVars ==
  <<coords_geojson, stations, max_range_m, mpg, radius_m,
    pc, cum, total_distance_m, stops, last_stop_dist_m, remaining_range,
    safe_counter, target_m, idx, outcome, result, locator_calls>>

NoResult ==
  [total_distance_m |-> 0, total_distance_miles |-> 0, total_gallons |-> 0,
   stops |-> <<>>, estimated_cost |-> 0]

RECURSIVE SumCost(_)
SumCost(ss) == IF Len(ss) = 0 THEN 0 ELSE ss[1].cost + SumCost(Tail(ss))

\* the arguments of one call; route_plan passes the price-sorted catalog
InitPlan ==
  /\ coords_geojson \in SeqsUpTo(Points, MaxPts)
  /\ stations \in {sts \in SeqsUpTo(StationRecords, MaxStations) :
                     SortedByPrice(sts)}
  /\ max_range_m \in RangeSet
  /\ mpg \in MpgSet
  /\ radius_m \in RadiusSet
  /\ pc = "call"
  /\ cum = <<>>
  /\ total_distance_m = 0
  /\ stops = <<>>
  /\ last_stop_dist_m = 0
  /\ remaining_range = 0
  /\ safe_counter = 0
  /\ target_m = 0
  /\ idx = 0
  /\ outcome = "none"
  /\ result = NoResult
  /\ locator_calls = 0

\* utils.py 168-175: fewer than two points
ReturnDegenerate ==
  /\ pc = "call"
  /\ Len(coords_geojson) < 2
  /\ result' = NoResult
  /\ outcome' = "returned"
  /\ pc' = "done"
  /\ UNCHANGED <<coords_geojson, stations, max_range_m, mpg, radius_m, cum,
                 total_distance_m, stops, last_stop_dist_m, remaining_range,
                 safe_counter, target_m, idx, locator_calls>>

\* utils.py 177-191: the whole route fits in one tank
ReturnSingleTank ==
  /\ pc = "call"
  /\ Len(coords_geojson) >= 2
  /\ LET c == cumulative_distances(coords_geojson)
         total == c[Len(c)]
     IN  /\ total <= max_range_m
         /\ cum' = c
         /\ total_distance_m' = total
         /\ result' = [total_distance_m |-> RoundMeters2(total),
                       total_distance_miles |-> meters_to_miles(total),
                       total_gallons |-> GallonsRounded(total, mpg),
                       stops |-> <<>>,
                       estimated_cost |-> 0]
  /\ stops' = <<>>
  /\ last_stop_dist_m' = 0
  /\ remaining_range' = max_range_m
  /\ outcome' = "returned"
  /\ pc' = "done"
  /\ UNCHANGED <<coords_geojson, stations, max_range_m, mpg, radius_m,
                 safe_counter, target_m, idx, locator_calls>>

\* utils.py 177-193: the route is longer than one tank; reach the while test
EnterLoop ==
  /\ pc = "call"
  /\ Len(coords_geojson) >= 2
  /\ LET c == cumulative_distances(coords_geojson)
         total == c[Len(c)]
     IN  /\ total > max_range_m
         /\ cum' = c
         /\ total_distance_m' = total
  /\ stops' = <<>>
  /\ last_stop_dist_m' = 0
  /\ remaining_range' = max_range_m
  /\ safe_counter' = 0
  /\ pc' = "loop"
  /\ UNCHANGED <<coords_geojson, stations, max_range_m, mpg, radius_m,
                 target_m, idx, outcome, result, locator_calls>>

\* mutant: the cap tested with <= instead of <
LoopConditionOffByOne ==
  /\ last_stop_dist_m + remaining_range < total_distance_m
  /\ safe_counter <= SafeCounterCap

\* utils.py 194: the while test
LoopCondition ==
  /\ last_stop_dist_m + remaining_range < total_distance_m
  /\ safe_counter < SafeCounterCap

\* utils.py 196-197
NextTarget == last_stop_dist_m + remaining_range
NextIdx == FirstIndexAtOrAfter(cum, NextTarget)

\* mutant: every stop fills a whole tank
FillDistanceFullTank(i) == max_range_m

\* utils.py 200-201
FillDistance(i) == Min(total_distance_m - cum[i + 1], max_range_m)

\* mutant: last_stop_dist_m not advanced
StopDistanceStale(i) == last_stop_dist_m

\* utils.py 211: the new last_stop_dist_m
StopDistance(i) == cum[i + 1]

\* utils.py 204-210: the appended stop
NewStop(i, station) ==
  [station |-> station,
   stop_coord |-> [lat |-> coords_geojson[i + 1][2],
                   lon |-> coords_geojson[i + 1][1]],
   distance_from_start_m |-> RoundMeters2(cum[i + 1]),
   gallons |-> GallonsRounded(FillDistance(i), mpg),
   cost |-> CostRounded(FillDistance(i), mpg, station.price)]

\* utils.py 194-212: one iteration that appends a stop
LoopIteration ==
  /\ pc = "loop"
  /\ LoopCondition
  /\ LET i == NextIdx
         found == find_station_for_point(coords_geojson[i + 1][2],
                                         coords_geojson[i + 1][1],
                                         stations, radius_m)
     IN  /\ ~found.raised
         /\ idx' = i
         /\ stops' = Append(stops, NewStop(i, found.station))
         /\ last_stop_dist_m' = StopDistance(i)
  /\ safe_counter' = safe_counter + 1
  /\ target_m' = NextTarget
  /\ remaining_range' = max_range_m
  /\ locator_calls' = locator_calls + 1
  /\ UNCHANGED <<coords_geojson, stations, max_range_m, mpg, radius_m, pc,
                 cum, total_distance_m, outcome, result>>

\* utils.py 194-199: the iteration in which find_station_for_point raises; the
\* exception leaves compute_stops, which returns nothing
LoopIterationRaises ==
  /\ pc = "loop"
  /\ LoopCondition
  /\ LET i == NextIdx
         found == find_station_for_point(coords_geojson[i + 1][2],
                                         coords_geojson[i + 1][1],
                                         stations, radius_m)
     IN  /\ found.raised
         /\ idx' = i
  /\ safe_counter' = safe_counter + 1
  /\ target_m' = NextTarget
  /\ locator_calls' = locator_calls + 1
  /\ outcome' = "raised"
  /\ pc' = "done"
  /\ UNCHANGED <<coords_geojson, stations, max_range_m, mpg, radius_m, cum,
                 total_distance_m, stops, last_stop_dist_m, remaining_range,
                 result>>

\* utils.py 194, 214-222: the while test fails; totals and return
LoopExit ==
  /\ pc = "loop"
  /\ ~LoopCondition
  /\ result' = [total_distance_m |-> RoundMeters2(total_distance_m),
                total_distance_miles |-> meters_to_miles(total_distance_m),
                total_gallons |-> GallonsRounded(total_distance_m, mpg),
                stops |-> stops,
                estimated_cost |-> SumCost(stops)]
  /\ outcome' = "returned"
  /\ pc' = "done"
  /\ UNCHANGED <<coords_geojson, stations, max_range_m, mpg, radius_m, cum,
                 total_distance_m, stops, last_stop_dist_m, remaining_range,
                 safe_counter, target_m, idx, locator_calls>>

(***************************************************************************)
(* A standalone call of find_station_for_point (utils.py 144-154) on any   *)
(* list, sorted or not.                                                    *)
(***************************************************************************)
locVars == <<loc_lat, loc_lon, loc_stations, loc_radius_m, loc_pc, loc_found>>

InitLocate ==
  /\ loc_lat \in LatSet
  /\ loc_lon \in LonSet
  /\ loc_stations \in SeqsUpTo(LocStationRecords, MaxLocStations)
  /\ loc_radius_m \in LocRadiusSet
  /\ loc_pc = "call"
  /\ loc_found = [raised |-> FALSE, station |-> NoStation]

IdleLocate ==
  /\ loc_lat = 0
  /\ loc_lon = 0
  /\ loc_stations = <<>>
  /\ loc_radius_m = 0
  /\ loc_pc = "idle"
  /\ loc_found = [raised |-> FALSE, station |-> NoStation]

\* the call returns a station
LocateReturns ==
  /\ loc_pc = "call"
  /\ LET found == find_station_for_point(loc_lat, loc_lon, loc_stations,
                                         loc_radius_m)
     IN  /\ ~found.raised
         /\ loc_found' = found
  /\ loc_pc' = "returned"
  /\ UNCHANGED <<loc_lat, loc_lon, loc_stations, loc_radius_m>>

\* the call raises IndexError (utils.py 154 on an empty list)
LocateRaises ==
  /\ loc_pc = "call"
  /\ LET found == find_station_for_point(loc_lat, loc_lon, loc_stations,
                                         loc_radius_m)
     IN  /\ found.raised
         /\ loc_found' = found
  /\ loc_pc' = "raised"
  /\ UNCHANGED <<loc_lat, loc_lon, loc_stations, loc_radius_m>>

(***************************************************************************)
(* views.py: route_plan, run by NumRequests concurrent requests of one     *)
(* process.  A request is [method, body, start, finish]: body is           *)
(* "notjson" (json.loads raises), "nonobject" (valid JSON that is not an   *)
(* object: a list, a number, a string, null) or "object"; start and finish *)
(* are what body.get returns for an object, "" standing for a missing or   *)
(* empty value.                                                            *)
(***************************************************************************)
routeVars ==
  <<stations_cache, cache_writes, request, rpc, status, planned_with,
    loaded, external_calls>>

Requests == 1..NumRequests

RequestSet ==
  { [method |-> "GET",  body |-> "object",    start |-> "A", finish |-> "B"],
    [method |-> "POST", body |-> "notjson",   start |-> "",  finish |-> ""],
    [method |-> "POST", body |-> "nonobject", start |-> "",  finish |-> ""],
    [method |-> "POST", body |-> "object",    start |-> "",  finish |-> "B"],
    [method |-> "POST", body |-> "object",    start |-> "A", finish |-> ""],
    [method |-> "POST", body |-> "object",    start |-> "A", finish |-> "B"] }

InitRoute ==
  /\ stations_cache = 0
  /\ cache_writes = 0
  /\ request \in [Requests -> RequestSet]
  /\ rpc = [r \in Requests |-> "validate"]
  /\ status = [r \in Requests |-> 0]
  /\ planned_with = [r \in Requests |-> 0]
  /\ loaded = [r \in Requests |-> FALSE]
  /\ external_calls = [r \in Requests |-> 0]

IdleRoute ==
  /\ stations_cache = 0
  /\ cache_writes = 0
  /\ request = <<>>
  /\ rpc = <<>>
  /\ status = <<>>
  /\ planned_with = <<>>
  /\ loaded = <<>>
  /\ external_calls = <<>>

\* the response of a request; pc "done" ends it
Respond(r, code) ==
  /\ status' = [status EXCEPT ![r] = code]
  /\ rpc' = [rpc EXCEPT ![r] = "done"]

\* views.py 65-66
RejectMethod(r) ==
  /\ rpc[r] = "validate"
  /\ request[r].method # "POST"
  /\ Respond(r, 400)
  /\ UNCHANGED <<stations_cache, cache_writes, request, planned_with, loaded,
                 external_calls>>

\* views.py 68-71
RejectInvalidJson(r) ==
  /\ rpc[r] = "validate"
  /\ request[r].method = "POST"
  /\ request[r].body = "notjson"
  /\ Respond(r, 400)
  /\ UNCHANGED <<stations_cache, cache_writes, request, planned_with, loaded,
                 external_calls>>

\* views.py 73: body.get on a value that is no dict raises AttributeError,
\* which no handler of route_plan catches: the server answers 500
CrashOnNonObject(r) ==
  /\ rpc[r] = "validate"
  /\ request[r].method = "POST"
  /\ request[r].body = "nonobject"
  /\ Respond(r, 500)
  /\ UNCHANGED <<stations_cache, cache_writes, request, planned_with, loaded,
                 external_calls>>

\* views.py 73-77
RejectMissingField(r) ==
  /\ rpc[r] = "validate"
  /\ request[r].method = "POST"
  /\ request[r].body = "object"
  /\ request[r].start = "" \/ request[r].finish = ""
  /\ Respond(r, 400)
  /\ UNCHANGED <<stations_cache, cache_writes, request, planned_with, loaded,
                 external_calls>>

\* views.py 65-77 passed
Accept(r) ==
  /\ rpc[r] = "validate"
  /\ request[r].method = "POST"
  /\ request[r].body = "object"
  /\ request[r].start # "" /\ request[r].finish # ""
  /\ rpc' = [rpc EXCEPT ![r] = "check_cache"]
  /\ UNCHANGED <<stations_cache, cache_writes, request, status, planned_with,
                 loaded, external_calls>>

\* views.py 80: the test of stations_cache, taken with no lock
CheckCache(r) ==
  /\ rpc[r] = "check_cache"
  /\ rpc' = [rpc EXCEPT ![r] =
               IF stations_cache = 0 THEN "load" ELSE "geocode"]
  /\ UNCHANGED <<stations_cache, cache_writes, request, status, planned_with,
                 loaded, external_calls>>

\* views.py 82: load_stations returns a new list, assigned to the global
LoadStations(r) ==
  /\ rpc[r] = "load"
  /\ cache_writes' = cache_writes + 1
  /\ stations_cache' = cache_writes + 1
  /\ loaded' = [loaded EXCEPT ![r] = TRUE]
  /\ rpc' = [rpc EXCEPT ![r] = "geocode"]
  /\ UNCHANGED <<request, status, planned_with, external_calls>>

\* views.py 82-84: load_stations raises (no file, no valid row)
LoadStationsFails(r) ==
  /\ rpc[r] = "load"
  /\ loaded' = [loaded EXCEPT ![r] = TRUE]
  /\ Respond(r, 500)
  /\ UNCHANGED <<stations_cache, cache_writes, request, planned_with,
                 external_calls>>

\* views.py 87-89: both geocode_address calls succeed
Geocode(r) ==
  /\ rpc[r] = "geocode"
  /\ external_calls' = [external_calls EXCEPT ![r] = @ + 2]
  /\ rpc' = [rpc EXCEPT ![r] = "route"]
  /\ UNCHANGED <<stations_cache, cache_writes, request, status, planned_with,
                 loaded>>

\* views.py 87-91: a geocode_address call raises: with no key before any
\* request (0), in the first (1) or in the second call (2)
GeocodeFails(r) ==
  /\ rpc[r] = "geocode"
  /\ \E n \in 0..2 :
       external_calls' = [external_calls EXCEPT ![r] = @ + n]
  /\ Respond(r, 400)
  /\ UNCHANGED <<stations_cache, cache_writes, request, planned_with, loaded>>

\* views.py 96-108: the OSRM call returns a route
Route(r) ==
  /\ rpc[r] = "route"
  /\ external_calls' = [external_calls EXCEPT ![r] = @ + 1]
  /\ rpc' = [rpc EXCEPT ![r] = "plan"]
  /\ UNCHANGED <<stations_cache, cache_writes, request, status, planned_with,
                 loaded>>

\* views.py 96-104: the OSRM call fails or returns no route
RouteFails(r) ==
  /\ rpc[r] = "route"
  /\ external_calls' = [external_calls EXCEPT ![r] = @ + 1]
  /\ Respond(r, 500)
  /\ UNCHANGED <<stations_cache, cache_writes, request, planned_with, loaded>>

\* views.py 111-131: compute_stops on the catalog the global holds now
Plan(r) ==
  /\ rpc[r] = "plan"
  /\ planned_with' = [planned_with EXCEPT ![r] = stations_cache]
  /\ Respond(r, 200)
  /\ UNCHANGED <<stations_cache, cache_writes, request, loaded,
                 external_calls>>

IdlePlan ==
  /\ coords_geojson = <<>>
  /\ stations = <<>>
  /\ max_range_m = 0
  /\ mpg = 0
  /\ radius_m = 0
  /\ pc = "idle"
  /\ cum = <<>>
  /\ total_distance_m = 0
  /\ stops = <<>>
  /\ last_stop_dist_m = 0
  /\ remaining_range = 0
  /\ safe_counter = 0
  /\ target_m = 0
  /\ idx = 0
  /\ outcome = "none"
  /\ result = NoResult
  /\ locator_calls = 0

vars == <<planVars, locVars, routeVars>>

(***************************************************************************)
(* Specifications.                                                         *)
(***************************************************************************)
\* one call of compute_stops
Init == InitPlan /\ IdleLocate /\ IdleRoute

Next ==
  \/ ReturnDegenerate /\ UNCHANGED <<locVars, routeVars>>
  \/ ReturnSingleTank /\ UNCHANGED <<locVars, routeVars>>
  \/ EnterLoop /\ UNCHANGED <<locVars, routeVars>>
  \/ LoopIteration /\ UNCHANGED <<locVars, routeVars>>
  \/ LoopIterationRaises /\ UNCHANGED <<locVars, routeVars>>
  \/ LoopExit /\ UNCHANGED <<locVars, routeVars>>

Spec == Init /\ [][Next]_vars

\* one call of find_station_for_point
InitLoc == InitLocate /\ IdlePlan /\ IdleRoute

NextLoc ==
  \/ LocateReturns /\ UNCHANGED <<planVars, routeVars>>
  \/ LocateRaises /\ UNCHANGED <<planVars, routeVars>>

SpecLocate == InitLoc /\ [][NextLoc]_vars

\* concurrent requests to route_plan
InitReq == InitRoute /\ IdlePlan /\ IdleLocate

NextReq ==
  \/ \E r \in Requests : RejectMethod(r) /\ UNCHANGED <<planVars, locVars>>
  \/ \E r \in Requests : RejectInvalidJson(r) /\ UNCHANGED <<planVars, locVars>>
  \/ \E r \in Requests : CrashOnNonObject(r) /\ UNCHANGED <<planVars, locVars>>
  \/ \E r \in Requests : RejectMissingField(r) /\ UNCHANGED <<planVars, locVars>>
  \/ \E r \in Requests : Accept(r) /\ UNCHANGED <<planVars, locVars>>
  \/ \E r \in Requests : CheckCache(r) /\ UNCHANGED <<planVars, locVars>>
  \/ \E r \in Requests : LoadStations(r) /\ UNCHANGED <<planVars, locVars>>
  \/ \E r \in Requests : LoadStationsFails(r) /\ UNCHANGED <<planVars, locVars>>
  \/ \E r \in Requests : Geocode(r) /\ UNCHANGED <<planVars, locVars>>
  \/ \E r \in Requests : GeocodeFails(r) /\ UNCHANGED <<planVars, locVars>>
  \/ \E r \in Requests : Route(r) /\ UNCHANGED <<planVars, locVars>>
  \/ \E r \in Requests : RouteFails(r) /\ UNCHANGED <<planVars, locVars>>
  \/ \E r \in Requests : Plan(r) /\ UNCHANGED <<planVars, locVars>>

SpecRoute == InitReq /\ [][NextReq]_vars

(***************************************************************************)
(* Properties.                                                             *)
(***************************************************************************)
\* the length of the route, summed directly from the polyline
RECURSIVE RouteLength(_)
RouteLength(coords) ==
  IF Len(coords) < 2 THEN 0
  ELSE Abs(coords[2][2] - coords[1][2]) + RouteLength(Tail(coords))

InCall == pc \in {"loop", "done"}

\* distance_from_start_m (centimetres) of the stop before stop k, 0 for k = 1
PrevStopDistance(ss, k) ==
  IF k = 1 THEN 0 ELSE ss[k - 1].distance_from_start_m

\* C1: with max_range_m > 0 and a non-empty station list, every stop lies at
\* most max_range_m after the stop before it (after the start for the first
\* stop), up to one centimetre of rounding.
C1_ForcedStopBound ==
  (InCall /\ max_range_m > 0 /\ Len(stations) > 0) =>
    \A k \in 1..Len(stops) :
      10 * (stops[k].distance_from_start_m - PrevStopDistance(stops, k))
        <= max_range_m + 10

\* C2: a call with an empty station list for a polyline of two or more points
\* that is longer than max_range_m ends with the exception raised in
\* find_station_for_point; it returns no result and has appended no stop.
C2_EmptyStationsRaise ==
  (pc = "done" /\ Len(stations) = 0 /\ Len(coords_geojson) >= 2
     /\ RouteLength(coords_geojson) > max_range_m) =>
    /\ outcome = "raised"
    /\ result = NoResult
    /\ stops = <<>>
    /\ locator_calls = 1

C2_Witness ==
  /\ pc = "done"
  /\ Len(stations) = 0
  /\ Len(coords_geojson) >= 2
  /\ max_range_m > 0
  /\ RouteLength(coords_geojson) > max_range_m
  /\ outcome = "raised"

\* C3: a polyline of two or more points that is no longer than max_range_m
\* (equality included) returns no stops, cost 0 and total_gallons = miles / mpg
\* (rounded to 3 decimals) without one call of the locator, whatever the
\* station list is; a polyline of fewer than two points returns the all-zero
\* result with no stops.
C3_SingleTank ==
  (pc = "done") =>
    /\ (Len(coords_geojson) >= 2
          /\ RouteLength(coords_geojson) <= max_range_m) =>
         /\ outcome = "returned"
         /\ result.stops = <<>>
         /\ result.estimated_cost = 0
         /\ result.total_gallons =
              RoundHalfEven(RouteLength(coords_geojson) * 125, 201168 * mpg)
         /\ locator_calls = 0
    /\ (Len(coords_geojson) < 2) =>
         /\ outcome = "returned"
         /\ result = [total_distance_m |-> 0, total_distance_miles |-> 0,
                      total_gallons |-> 0, stops |-> <<>>,
                      estimated_cost |-> 0]
         /\ locator_calls = 0

\* a route exactly as long as the range, with no station at all
C3_Witness ==
  /\ pc = "done"
  /\ Len(coords_geojson) = 3
  /\ RouteLength(coords_geojson) = max_range_m
  /\ max_range_m > 0
  /\ Len(stations) = 0
  /\ outcome = "returned"
  /\ result.stops = <<>>
  /\ result.total_gallons > 0

\* C4: on a non-empty list find_station_for_point returns a station of the
\* list: when some station is within radius_m, one within the radius that is
\* minimal in (price, distance) among those within the radius; otherwise one
\* whose distance is minimal over the whole list.  It does not raise.
C4_LocatorChoice ==
  (loc_pc \in {"returned", "raised"} /\ Len(loc_stations) > 0) =>
    LET n == Len(loc_stations)
        dist(s) == Abs(s.lat - loc_lat)
        got == loc_found.station
        inside == {i \in 1..n : dist(loc_stations[i]) <= loc_radius_m}
    IN  /\ loc_pc = "returned"
        /\ \E i \in 1..n : loc_stations[i] = got
        /\ inside # {} =>
             /\ dist(got) <= loc_radius_m
             /\ \A i \in inside :
                  \/ got.price < loc_stations[i].price
                  \/ /\ got.price = loc_stations[i].price
                     /\ dist(got) <= dist(loc_stations[i])
        /\ inside = {} =>
             \A i \in 1..n : dist(got) <= dist(loc_stations[i])

\* two stations within the radius, the farther one cheaper, and it is returned
C4_Witness ==
  /\ loc_pc = "returned"
  /\ \E i, j \in 1..Len(loc_stations) :
       /\ Abs(loc_stations[i].lat - loc_lat) <= loc_radius_m
       /\ Abs(loc_stations[j].lat - loc_lat) <= loc_radius_m
       /\ Abs(loc_stations[i].lat - loc_lat) > Abs(loc_stations[j].lat - loc_lat)
       /\ loc_stations[i].price < loc_stations[j].price
       /\ loc_found.station = loc_stations[i]

\* C5: the catalog is initialised once: stations_cache is written at most
\* once, at most one request runs a load_stations that returns, and all
\* requests that plan are given the same catalog.
C5_InitialisedOnce ==
  /\ cache_writes <= 1
  /\ \A r1, r2 \in DOMAIN rpc :
       (status[r1] = 200 /\ status[r2] = 200) =>
         planned_with[r1] = planned_with[r2]

\* C6: a request that is not a POST, whose body is not valid JSON, or whose
\* JSON has no non-empty start and finish is answered 400 having loaded no
\* stations and issued no external request.
InvalidRequest(q) ==
  \/ q.method # "POST"
  \/ q.body = "notjson"
  \/ q.body = "nonobject"
  \/ q.start = ""
  \/ q.finish = ""

C6_InvalidAnswered400 ==
  \A r \in DOMAIN rpc :
    (rpc[r] = "done" /\ InvalidRequest(request[r])) =>
      /\ status[r] = 400
      /\ ~loaded[r]
      /\ external_calls[r] = 0

\* C7: the stops are in route order: each stop's distance_from_start_m is
\* greater than that of the stop appended before it, after every iteration
\* and in the result.
StrictlyIncreasing(ss) ==
  \A k \in 2..Len(ss) :
    ss[k].distance_from_start_m > ss[k - 1].distance_from_start_m

C7_StopsInRouteOrder ==
  InCall => (StrictlyIncreasing(stops) /\ StrictlyIncreasing(result.stops))

\* C7 as amended: the same, for max_range_m of at least 0.02 m (two steps of
\* the rounding of distance_from_start_m).
C7_StopsInRouteOrderPositiveRange ==
  (InCall /\ max_range_m >= 20) =>
    (StrictlyIncreasing(stops) /\ StrictlyIncreasing(result.stops))

C7_Witness ==
  /\ pc = "done"
  /\ outcome = "returned"
  /\ max_range_m >= 20
  /\ Len(result.stops) >= 2

\* C8: the stop appended at index idx buys fuel for
\* min(total_distance_m - cum[idx], max_range_m): gallons is that distance in
\* miles / mpg (3 decimals), cost is gallons * the price of its station
\* (2 decimals); so it buys no more than a full tank and no more than the
\* rest of the route needs.
C8_FillDistance ==
  (InCall /\ outcome # "raised" /\ Len(stops) > 0) =>
    LET last == stops[Len(stops)]
        rest == RouteLength(coords_geojson) - cum[idx + 1]
        fill == IF rest <= max_range_m THEN rest ELSE max_range_m
    IN  /\ last.gallons = RoundHalfEven(fill * 125, 201168 * mpg)
        /\ last.cost = RoundHalfEven(fill * last.station.price, 1609344 * mpg)
        /\ last.gallons <= RoundHalfEven(max_range_m * 125, 201168 * mpg)
        /\ last.gallons <= RoundHalfEven(rest * 125, 201168 * mpg)

\* a stop that is not at the end and buys less than a full tank
C8_Witness ==
  /\ InCall
  /\ Len(stops) > 0
  /\ max_range_m > 0
  /\ cum[idx + 1] < total_distance_m
  /\ total_distance_m - cum[idx + 1] < max_range_m
  /\ stops[Len(stops)].gallons > 0
  /\ stops[Len(stops)].cost > 0

\* C9: with a non-empty station list the loop runs at most 50 iterations and
\* the result holds at most 50 stops, for every max_range_m; a call that
\* reaches the cap returns, without error, the stops computed so far.
C9_IterationCap ==
  (InCall /\ Len(stations) > 0) =>
    /\ safe_counter <= 50
    /\ Len(stops) = safe_counter
    /\ outcome # "raised"
    /\ (pc = "loop" /\ safe_counter = 50) => ENABLED LoopExit
    /\ (pc = "done") =>
         /\ outcome = "returned"
         /\ result.stops = stops
         /\ Len(result.stops) <= 50

\* the cap is reached
C9_Witness ==
  /\ pc = "done"
  /\ outcome = "returned"
  /\ Len(result.stops) = 50
  /\ max_range_m <= 0

\* C10: with max_range_m > 0 and a non-empty station list no stop is at the
\* last vertex: the stop appended at idx has cum[idx] < total_distance_m, a
\* positive fill distance and positive gallons.
C10_StopBeforeDestination ==
  (InCall /\ max_range_m > 0 /\ Len(stations) > 0 /\ Len(stops) > 0) =>
    /\ cum[idx + 1] < total_distance_m
    /\ Min(total_distance_m - cum[idx + 1], max_range_m) > 0
    /\ stops[Len(stops)].gallons > 0

=============================================================================
